---- MODULE Spec2Model ----
(***************************************************************************)
(* Model of bigchaindb_driver.transport.Transport: the retry loop of       *)
(* forward_request over a pool of node connections, with the time budget   *)
(* and the error trace of each call.                                       *)
(*                                                                         *)
(* Several forward_request calls (Calls) may be in flight on one Transport.*)
(* time() is the clock `now`; it advances by Tick.                         *)
(* Pool and Connection are collaborators of Transport: their selection and *)
(* backoff bookkeeping are modelled from the design document.              *)
(***************************************************************************)
EXTENDS Integers, Sequences, FiniteSets, TLC

\* ---- bounds of the model ------------------------------------------------
NumNodes == 2
NumCalls == 2
MaxTimeout == 2
MaxNow == 2
MaxRequests == 3

\* ---- backoff configuration (design document, section 4.2) ----------------
\* the delay after the first failure, doubled by each further failure, and its
\* cap; chosen so that the cap cuts the delay of a second failure in a row
BaseBackoff == 2
MaxBackoff == 3

Nodes == 1..NumNodes
Calls == 1..NumCalls

\* Python's None for an optional number: the empty tuple; a number n is <<n>>.
None == << >>
Some(n) == <<n>>
IsNone(t) == t = None
Val(t) == t[1]

\* The values Transport(timeout=...) is constructed with: None, or a number
\* (nothing in __init__ rejects a negative one).
TimeoutSet == {None} \cup {Some(n) : n \in -1..MaxTimeout}

VARIABLES
  self_timeout,   \* Transport.timeout, set by __init__
  now,            \* time()
  failureCount,   \* pool: per node, consecutive connection failures
  blockedUntil,   \* pool: per node, time from which the node is eligible
  cursor,         \* pool: round-robin position
  requests,       \* number of Connection.request calls issued so far
  pc,             \* per call: position in forward_request
  timeout,        \* per call: local `timeout`, the remaining budget
  error_trace,    \* per call: local `error_trace`
  connection,     \* per call: local `connection` (a node; 0 before the first)
  start,          \* per call: local `start`
  result,         \* per call: what the call returned or raised
  log             \* per call: the attempts made so far, in order

vars == <<self_timeout, now, failureCount, blockedUntil, cursor, requests,
          pc, timeout, error_trace, connection, start, result, log>>

poolVars == <<failureCount, blockedUntil, cursor>>

NoResult == [kind |-> "none"]

\* ---- Pool / Connection ---------------------------------------------------

Min(a, b) == IF a <= b THEN a ELSE b

RECURSIVE Pow2(_)
Pow2(n) == IF n <= 0 THEN 1 ELSE 2 * Pow2(n - 1)

\* BackoffTracker.isEligible(now)
isEligible(n) == now >= blockedUntil[n]

Eligible == {n \in Nodes : isEligible(n)}

\* round-robin distance of node n from the cursor
Dist(n) == (n - cursor) % NumNodes

\* NodePool.selectNode(now): the nodes the policy may return
selectNode ==
  IF Eligible # {}
  THEN {n \in Eligible : \A m \in Eligible : Dist(n) <= Dist(m)}
  ELSE {n \in Nodes : \A m \in Nodes : blockedUntil[n] <= blockedUntil[m]}

\* the cursor after node n was selected
cursorAfter(n) == IF Eligible # {} THEN (n % NumNodes) + 1 ELSE cursor

\* recordFailure that leaves the count as it is
recordFailureCountKept(n) == failureCount[n]

\* recordFailure without mutual exclusion: of two failures of requests that
\* were in flight on the node together, the update of the first is overwritten
recordFailureCountLost(n) ==
  IF \E c, d \in Calls :
       c # d /\ pc[c] = "request" /\ pc[d] = "request"
            /\ connection[c] = n /\ connection[d] = n
  THEN failureCount[n]
  ELSE failureCount[n] + 1

\* BackoffTracker.recordFailure(now)
recordFailureCount(n) == failureCount[n] + 1

recordFailureBlocked(n) ==
  now + Min(MaxBackoff, BaseBackoff * Pow2(recordFailureCount(n) - 1))

\* reportOutcome that does nothing on a success
reportOutcomeNoReset(n, success) ==
  IF success
  THEN UNCHANGED <<failureCount, blockedUntil>>
  ELSE /\ failureCount' = [failureCount EXCEPT ![n] = recordFailureCount(n)]
       /\ blockedUntil' = [blockedUntil EXCEPT ![n] = recordFailureBlocked(n)]

\* NodePool.reportOutcome(node, success, now)
reportOutcome(n, success) ==
  IF success
  THEN /\ failureCount' = [failureCount EXCEPT ![n] = 0]
       /\ blockedUntil' = [blockedUntil EXCEPT ![n] = now]
  ELSE /\ failureCount' = [failureCount EXCEPT ![n] = recordFailureCount(n)]
       /\ blockedUntil' = [blockedUntil EXCEPT ![n] = recordFailureBlocked(n)]

\* ---- Transport ------------------------------------------------------------

Init ==
  /\ self_timeout \in TimeoutSet
  /\ now = 0
  /\ failureCount = [n \in Nodes |-> 0]
  /\ blockedUntil = [n \in Nodes |-> 0]
  /\ cursor = 1
  /\ requests = 0
  /\ pc = [c \in Calls |-> "idle"]
  /\ timeout = [c \in Calls |-> None]
  /\ error_trace = [c \in Calls |-> << >>]
  /\ connection = [c \in Calls |-> 0]
  /\ start = [c \in Calls |-> 0]
  /\ result = [c \in Calls |-> NoResult]
  /\ log = [c \in Calls |-> << >>]

\* time passes
Tick ==
  /\ now < MaxNow
  /\ now' = now + 1
  /\ UNCHANGED <<self_timeout, failureCount, blockedUntil, cursor, requests,
                 pc, timeout, error_trace, connection, start, result, log>>

\* forward_request that starts from a pool with fresh backoff state
CallResetsPool(c) ==
  /\ pc[c] = "idle"
  /\ pc' = [pc EXCEPT ![c] = "while"]
  /\ error_trace' = [error_trace EXCEPT ![c] = << >>]
  /\ timeout' = [timeout EXCEPT ![c] = self_timeout]
  /\ failureCount' = [n \in Nodes |-> 0]
  /\ blockedUntil' = [n \in Nodes |-> 0]
  /\ UNCHANGED <<self_timeout, now, cursor, requests, connection, start,
                 result, log>>

\* forward_request is entered: error_trace = [], timeout = self.timeout
Call(c) ==
  /\ pc[c] = "idle"
  /\ pc' = [pc EXCEPT ![c] = "while"]
  /\ error_trace' = [error_trace EXCEPT ![c] = << >>]
  /\ timeout' = [timeout EXCEPT ![c] = self_timeout]
  /\ UNCHANGED <<self_timeout, now, failureCount, blockedUntil, cursor,
                 requests, connection, start, result, log>>

\* the loop condition written as: timeout is None or timeout >= 0
LoopCondGe0(t) == IF t = << >> THEN TRUE ELSE t[1] >= 0

\* the loop condition written as: timeout is not None and timeout > 0
LoopCondNotNone(t) == IF t = << >> THEN FALSE ELSE t[1] > 0

\* the loop condition written as: timeout is None or timeout != 0
LoopCondNe0(t) == IF t = << >> THEN TRUE ELSE t[1] # 0

\* the loop condition: timeout is None or timeout > 0
LoopCond(t) == IF IsNone(t) THEN TRUE ELSE Val(t) > 0

\* a loop that takes its connection from the pool once, before the first attempt
AttemptReuse(c) ==
  /\ pc[c] = "while"
  /\ LoopCond(timeout[c])
  /\ requests < MaxRequests
  /\ \E n \in (IF connection[c] = 0 THEN selectNode ELSE {connection[c]}) :
       /\ connection' = [connection EXCEPT ![c] = n]
       /\ cursor' = IF connection[c] = 0 THEN cursorAfter(n) ELSE cursor
       /\ log' = [log EXCEPT ![c] = Append(@,
                    [node |-> n, seq |-> requests + 1, budget |-> timeout[c],
                     start |-> now, outcome |-> "pending", elapsed |-> 0])]
  /\ start' = [start EXCEPT ![c] = now]
  /\ requests' = requests + 1
  /\ pc' = [pc EXCEPT ![c] = "request"]
  /\ UNCHANGED <<self_timeout, now, failureCount, blockedUntil,
                 timeout, error_trace, result>>

\* a request that is handed the configured timeout instead of the remaining one
AttemptConfiguredTimeout(c) ==
  /\ pc[c] = "while"
  /\ LoopCond(timeout[c])
  /\ requests < MaxRequests
  /\ \E n \in selectNode :
       /\ connection' = [connection EXCEPT ![c] = n]
       /\ cursor' = cursorAfter(n)
       /\ log' = [log EXCEPT ![c] = Append(@,
                    [node |-> n, seq |-> requests + 1, budget |-> self_timeout,
                     start |-> now, outcome |-> "pending", elapsed |-> 0])]
  /\ start' = [start EXCEPT ![c] = now]
  /\ requests' = requests + 1
  /\ pc' = [pc EXCEPT ![c] = "request"]
  /\ UNCHANGED <<self_timeout, now, failureCount, blockedUntil,
                 timeout, error_trace, result>>

\* the loop condition holds: a connection is taken from the pool, start = time()
\* and the request is issued with timeout = the remaining budget
Attempt(c) ==
  /\ pc[c] = "while"
  /\ LoopCond(timeout[c])
  /\ requests < MaxRequests
  /\ \E n \in selectNode :
       /\ connection' = [connection EXCEPT ![c] = n]
       /\ cursor' = cursorAfter(n)
       /\ log' = [log EXCEPT ![c] = Append(@,
                    [node |-> n, seq |-> requests + 1, budget |-> timeout[c],
                     start |-> now, outcome |-> "pending", elapsed |-> 0])]
  /\ start' = [start EXCEPT ![c] = now]
  /\ requests' = requests + 1
  /\ pc' = [pc EXCEPT ![c] = "request"]
  /\ UNCHANGED <<self_timeout, now, failureCount, blockedUntil,
                 timeout, error_trace, result>>

\* the loop condition fails: raise TimeoutError(error_trace)
RaiseTimeout(c) ==
  /\ pc[c] = "while"
  /\ ~LoopCond(timeout[c])
  /\ result' = [result EXCEPT ![c] =
                  [kind |-> "TimeoutError", trace |-> error_trace[c]]]
  /\ pc' = [pc EXCEPT ![c] = "done"]
  /\ UNCHANGED <<self_timeout, now, failureCount, blockedUntil, cursor,
                 requests, timeout, error_trace, connection, start, log>>

\* a loop that does not charge the elapsed time to the budget
FinallyNoSubtract(t, s) == t

\* a finally clause that charges the elapsed time twice
FinallyTwice(t, s) == IF t = << >> THEN << >> ELSE <<t[1] - 2 * (now - s)>>

\* a finally clause that adds the elapsed time to the budget
FinallyAdds(t, s) == IF t = << >> THEN << >> ELSE <<t[1] + (now - s)>>

\* the finally clause: elapsed = time() - start; timeout -= elapsed if not None
Finally(t, s) == IF IsNone(t) THEN None ELSE Some(Val(t) - (now - s))

\* the attempt of call c ended with `outcome`: the entry of log
Ended(c, outcome) ==
  [log EXCEPT ![c][Len(log[c])].outcome = outcome,
              ![c][Len(log[c])].elapsed = now - start[c]]

\* what a node sends back / fails with, on the request numbered seq
Response(n, seq) == [kind |-> "Response", node |-> n, seq |-> seq]
ConnectionError(n, seq) == [kind |-> "ConnectionError", node |-> n, seq |-> seq]
OtherError(n, seq) == [kind |-> "OtherError", node |-> n, seq |-> seq]

CurSeq(c) == log[c][Len(log[c])].seq

\* a success that falls through to the next iteration instead of returning
RequestOkNoReturn(c) ==
  /\ pc[c] = "request"
  /\ reportOutcome(connection[c], TRUE)
  /\ timeout' = [timeout EXCEPT ![c] = Finally(timeout[c], start[c])]
  /\ log' = Ended(c, "ok")
  /\ pc' = [pc EXCEPT ![c] = "while"]
  /\ UNCHANGED <<self_timeout, now, cursor, requests, error_trace,
                 connection, start, result>>

\* a connection failure put at the head of the trace
RequestConnectionErrorPrepend(c) ==
  /\ pc[c] = "request"
  /\ reportOutcome(connection[c], FALSE)
  /\ error_trace' = [error_trace EXCEPT ![c] =
                       <<ConnectionError(connection[c], CurSeq(c))>> \o @]
  /\ timeout' = [timeout EXCEPT ![c] = Finally(timeout[c], start[c])]
  /\ log' = Ended(c, "conn")
  /\ pc' = [pc EXCEPT ![c] = "while"]
  /\ UNCHANGED <<self_timeout, now, cursor, requests, connection, start,
                 result>>

\* a connection failure that is not caught
RequestConnectionErrorRaised(c) ==
  /\ pc[c] = "request"
  /\ reportOutcome(connection[c], FALSE)
  /\ timeout' = [timeout EXCEPT ![c] = Finally(timeout[c], start[c])]
  /\ result' = [result EXCEPT ![c] =
                  [kind |-> "raise",
                   error |-> ConnectionError(connection[c], CurSeq(c))]]
  /\ log' = Ended(c, "conn")
  /\ pc' = [pc EXCEPT ![c] = "done"]
  /\ UNCHANGED <<self_timeout, now, cursor, requests, error_trace,
                 connection, start>>

\* a connection failure after which the call gives up: the raise inside the loop
RequestConnectionErrorGivesUp(c) ==
  /\ pc[c] = "request"
  /\ reportOutcome(connection[c], FALSE)
  /\ error_trace' = [error_trace EXCEPT ![c] =
                       Append(@, ConnectionError(connection[c], CurSeq(c)))]
  /\ timeout' = [timeout EXCEPT ![c] = Finally(timeout[c], start[c])]
  /\ result' = [result EXCEPT ![c] =
                  [kind |-> "TimeoutError",
                   trace |-> Append(error_trace[c],
                               ConnectionError(connection[c], CurSeq(c)))]]
  /\ log' = Ended(c, "conn")
  /\ pc' = [pc EXCEPT ![c] = "done"]
  /\ UNCHANGED <<self_timeout, now, cursor, requests, connection, start>>

\* an error of another kind caught and retried like a connection failure
RequestOtherErrorRetried(c) ==
  /\ pc[c] = "request"
  /\ error_trace' = [error_trace EXCEPT ![c] =
                       Append(@, OtherError(connection[c], CurSeq(c)))]
  /\ timeout' = [timeout EXCEPT ![c] = Finally(timeout[c], start[c])]
  /\ log' = Ended(c, "other")
  /\ pc' = [pc EXCEPT ![c] = "while"]
  /\ UNCHANGED <<self_timeout, now, failureCount, blockedUntil, cursor,
                 requests, connection, start, result>>

\* a loop that keeps its budget in self.timeout
RequestConnectionErrorSharedBudget(c) ==
  /\ pc[c] = "request"
  /\ reportOutcome(connection[c], FALSE)
  /\ error_trace' = [error_trace EXCEPT ![c] =
                       Append(@, ConnectionError(connection[c], CurSeq(c)))]
  /\ self_timeout' = Finally(self_timeout, start[c])
  /\ timeout' = [timeout EXCEPT ![c] = Finally(self_timeout, start[c])]
  /\ log' = Ended(c, "conn")
  /\ pc' = [pc EXCEPT ![c] = "while"]
  /\ UNCHANGED <<now, cursor, requests, connection, start, result>>

\* a success after which the budget is tested before the response is returned
RequestOkChecksBudget(c) ==
  /\ pc[c] = "request"
  /\ reportOutcome(connection[c], TRUE)
  /\ timeout' = [timeout EXCEPT ![c] = Finally(timeout[c], start[c])]
  /\ result' = [result EXCEPT ![c] =
                  IF LoopCond(Finally(timeout[c], start[c]))
                  THEN [kind |-> "return",
                        data |-> Response(connection[c], CurSeq(c))]
                  ELSE [kind |-> "TimeoutError", trace |-> error_trace[c]]]
  /\ log' = Ended(c, "ok")
  /\ pc' = [pc EXCEPT ![c] = "done"]
  /\ UNCHANGED <<self_timeout, now, cursor, requests, error_trace,
                 connection, start>>

\* connection.request returned a response: return response.data
RequestOk(c) ==
  /\ pc[c] = "request"
  /\ reportOutcome(connection[c], TRUE)
  /\ timeout' = [timeout EXCEPT ![c] = Finally(timeout[c], start[c])]
  /\ result' = [result EXCEPT ![c] =
                  [kind |-> "return",
                   data |-> Response(connection[c], CurSeq(c))]]
  /\ log' = Ended(c, "ok")
  /\ pc' = [pc EXCEPT ![c] = "done"]
  /\ UNCHANGED <<self_timeout, now, cursor, requests, error_trace,
                 connection, start>>

\* connection.request raised ConnectionError: error_trace.append(err); continue
RequestConnectionError(c) ==
  /\ pc[c] = "request"
  /\ reportOutcome(connection[c], FALSE)
  /\ error_trace' = [error_trace EXCEPT ![c] =
                       Append(@, ConnectionError(connection[c], CurSeq(c)))]
  /\ timeout' = [timeout EXCEPT ![c] = Finally(timeout[c], start[c])]
  /\ log' = Ended(c, "conn")
  /\ pc' = [pc EXCEPT ![c] = "while"]
  /\ UNCHANGED <<self_timeout, now, cursor, requests, connection, start,
                 result>>

\* connection.request raised another exception: it propagates
RequestOtherError(c) ==
  /\ pc[c] = "request"
  /\ timeout' = [timeout EXCEPT ![c] = Finally(timeout[c], start[c])]
  /\ result' = [result EXCEPT ![c] =
                  [kind |-> "raise",
                   error |-> OtherError(connection[c], CurSeq(c))]]
  /\ log' = Ended(c, "other")
  /\ pc' = [pc EXCEPT ![c] = "done"]
  /\ UNCHANGED <<self_timeout, now, failureCount, blockedUntil, cursor,
                 requests, error_trace, connection, start>>

\* the caller has the outcome; the thread may call forward_request again
Finish(c) ==
  /\ pc[c] = "done"
  /\ pc' = [pc EXCEPT ![c] = "idle"]
  /\ timeout' = [timeout EXCEPT ![c] = None]
  /\ error_trace' = [error_trace EXCEPT ![c] = << >>]
  /\ connection' = [connection EXCEPT ![c] = 0]
  /\ start' = [start EXCEPT ![c] = 0]
  /\ result' = [result EXCEPT ![c] = NoResult]
  /\ log' = [log EXCEPT ![c] = << >>]
  /\ UNCHANGED <<self_timeout, now, failureCount, blockedUntil, cursor,
                 requests>>

Next ==
  \/ Tick
  \/ \E c \in Calls : Call(c)
  \/ \E c \in Calls : Attempt(c)
  \/ \E c \in Calls : RaiseTimeout(c)
  \/ \E c \in Calls : RequestOk(c)
  \/ \E c \in Calls : RequestConnectionError(c)
  \/ \E c \in Calls : RequestOtherError(c)
  \/ \E c \in Calls : Finish(c)

Spec == Init /\ [][Next]_vars

TypeOK ==
  /\ self_timeout \in TimeoutSet
  /\ now \in 0..MaxNow
  /\ requests \in 0..MaxRequests
  /\ \A c \in Calls : pc[c] \in {"idle", "while", "request", "done"}

\* ---- the history of a call ------------------------------------------------

\* number of attempts call c has made
Attempts(c) == Len(log[c])

\* cumulative elapsed time of the first k attempts of call c
RECURSIVE SumElapsed(_, _)
SumElapsed(c, k) ==
  IF k <= 0 THEN 0 ELSE SumElapsed(c, k - 1) + log[c][k].elapsed

\* the connection failures of call c, in the order of the attempts
RECURSIVE FailuresUpTo(_, _)
FailuresUpTo(c, k) ==
  IF k <= 0 THEN << >>
  ELSE IF log[c][k].outcome = "conn"
       THEN Append(FailuresUpTo(c, k - 1),
                   ConnectionError(log[c][k].node, log[c][k].seq))
       ELSE FailuresUpTo(c, k - 1)

Failures(c) == FailuresUpTo(c, Attempts(c))

Finite == ~IsNone(self_timeout)

\* ---- C1 ---------------------------------------------------------------------
\* C1: when the first K attempts of a call fail with a connection failure and
\* attempt K+1 succeeds, the call has made exactly K+1 attempts, it is over
\* (no node is tried after the success) and it returned the data of that
\* successful response.
C1_SuccessAfterKFailures ==
  \A c \in Calls : \A k \in 1..Attempts(c) :
    log[c][k].outcome = "ok" =>
      /\ \A j \in 1..(k - 1) : log[c][j].outcome = "conn"
      /\ Attempts(c) = k
      /\ pc[c] = "done"
      /\ result[c] = [kind |-> "return",
                      data |-> Response(log[c][k].node, log[c][k].seq)]

\* two connection failures, then a success
C1_Witness ==
  \E c \in Calls :
    /\ Attempts(c) >= 3
    /\ log[c][Attempts(c)].outcome = "ok"
    /\ log[c][1].outcome = "conn"
    /\ result[c].kind = "return"

\* ---- C2 ---------------------------------------------------------------------
\* C2: with a configured timeout of exactly 0, no call ever makes an attempt
\* (no node is selected, no request is issued), and a call that is over raised
\* TimeoutError with an empty error trace.
C2_ZeroTimeout ==
  self_timeout = Some(0) =>
    /\ requests = 0
    /\ \A c \in Calls :
         /\ Attempts(c) = 0
         /\ connection[c] = 0
         /\ pc[c] # "request"
         /\ pc[c] = "done" =>
              result[c] = [kind |-> "TimeoutError", trace |-> << >>]

C2_Witness ==
  /\ self_timeout = Some(0)
  /\ \E c \in Calls : pc[c] = "done" /\ result[c].kind = "TimeoutError"

\* ---- C3 ---------------------------------------------------------------------
\* C3: with a finite timeout T > 0 and every attempt so far failing with a
\* connection failure: every attempt started while the cumulative elapsed time
\* of the earlier attempts was < T; at the loop head the call raises
\* TimeoutError iff the cumulative elapsed time is >= T; and the trace of the
\* TimeoutError is as long as the number of attempts made.
AllFailed(c) ==
  \A k \in 1..Attempts(c) : log[c][k].outcome = "conn"

C3_TimeoutExhaustion ==
  (Finite /\ Val(self_timeout) > 0) =>
    \A c \in Calls :
      (pc[c] \in {"while", "done"} /\ AllFailed(c)) =>
        /\ \A k \in 1..Attempts(c) :
             SumElapsed(c, k - 1) < Val(self_timeout)
        /\ pc[c] = "while" =>
             (LoopCond(timeout[c])
                <=> SumElapsed(c, Attempts(c)) < Val(self_timeout))
        /\ pc[c] = "done" =>
             /\ result[c].kind = "TimeoutError"
             /\ SumElapsed(c, Attempts(c)) >= Val(self_timeout)
             /\ Len(result[c].trace) = Attempts(c)

\* a TimeoutError after two failed attempts that used up the budget together
C3_Witness ==
  \E c \in Calls :
    /\ Finite
    /\ pc[c] = "done"
    /\ result[c].kind = "TimeoutError"
    /\ Attempts(c) >= 2
    /\ log[c][1].elapsed > 0

\* ---- C4 ---------------------------------------------------------------------
\* C4: an attempt that fails with an error that is not a connection failure
\* is the last attempt of its call, and the call raised that same error (not
\* TimeoutError), whatever the remaining budget and the failures before it.
C4_OtherErrorPropagates ==
  \A c \in Calls : \A k \in 1..Attempts(c) :
    log[c][k].outcome = "other" =>
      /\ Attempts(c) = k
      /\ pc[c] = "done"
      /\ result[c] = [kind |-> "raise",
                      error |-> OtherError(log[c][k].node, log[c][k].seq)]

\* the error came after a connection failure, with budget left
C4_Witness ==
  \E c \in Calls :
    /\ Attempts(c) >= 2
    /\ log[c][Attempts(c)].outcome = "other"
    /\ Finite
    /\ Val(timeout[c]) > 0

\* ---- C5 ---------------------------------------------------------------------
\* C5: with timeout = None the budget of a call stays None, the call never
\* raises TimeoutError, and after every connection failure the loop condition
\* holds again: the call is over only after a success (or another error).
C5_UnboundedRetries ==
  IsNone(self_timeout) =>
    \A c \in Calls :
      /\ pc[c] # "idle" => IsNone(timeout[c])
      /\ result[c].kind # "TimeoutError"
      /\ pc[c] = "while" => LoopCond(timeout[c])
      /\ pc[c] = "done" =>
           /\ Attempts(c) > 0
           /\ log[c][Attempts(c)].outcome \in {"ok", "other"}

\* a call without timeout back at the loop head after two failures that took time
C5_Witness ==
  \E c \in Calls :
    /\ IsNone(self_timeout)
    /\ pc[c] = "while"
    /\ Attempts(c) >= 2
    /\ SumElapsed(c, Attempts(c)) >= 2

\* ---- C6 ---------------------------------------------------------------------
\* C6: the trace carried by a TimeoutError is the sequence of the connection
\* failures of the attempts of that call, one per failed attempt, in the order
\* of the attempts, and every attempt of the call is one of them.
C6_TraceIsEveryFailure ==
  \A c \in Calls :
    result[c].kind = "TimeoutError" =>
      /\ result[c].trace = Failures(c)
      /\ Len(result[c].trace) = Attempts(c)
      /\ \A k \in 1..Attempts(c) :
           result[c].trace[k] = ConnectionError(log[c][k].node, log[c][k].seq)

\* a TimeoutError carrying two failures
C6_Witness ==
  \E c \in Calls :
    /\ result[c].kind = "TimeoutError"
    /\ Len(result[c].trace) >= 2
    /\ result[c].trace[1] # result[c].trace[2]

\* ---- C7 ---------------------------------------------------------------------
\* C7: a call that is over returned the data of one response, or raised an
\* error of a node that is not a connection failure, or raised TimeoutError;
\* a call that is not over has no outcome.
C7_ThreeOutcomes ==
  \A c \in Calls :
    IF pc[c] = "done"
    THEN /\ result[c].kind \in {"return", "raise", "TimeoutError"}
         /\ result[c].kind = "return" => result[c].data.kind = "Response"
         /\ result[c].kind = "raise" => result[c].error.kind = "OtherError"
         /\ result[c].kind = "TimeoutError" =>
              \A k \in 1..Len(result[c].trace) :
                result[c].trace[k].kind = "ConnectionError"
    ELSE result[c] = NoResult

\* a call that is over after a connection failure that it did not raise
C7_Witness ==
  \E c \in Calls :
    /\ pc[c] = "done"
    /\ Attempts(c) >= 2
    /\ log[c][1].outcome = "conn"
    /\ result[c].kind \in {"return", "raise"}

\* ---- C8 ---------------------------------------------------------------------
\* C8: when a call has raised TimeoutError, the configured timeout is not None
\* and the remaining budget of the call is <= 0: the configured timeout minus
\* the elapsed time of its attempts.
C8_TimeoutOnlyWhenExhausted ==
  \A c \in Calls :
    result[c].kind = "TimeoutError" =>
      /\ Finite
      /\ ~IsNone(timeout[c])
      /\ Val(timeout[c]) <= 0
      /\ Val(self_timeout) - SumElapsed(c, Attempts(c)) <= 0

\* a TimeoutError of a budget that the attempts consumed
C8_Witness ==
  \E c \in Calls :
    /\ result[c].kind = "TimeoutError"
    /\ Finite
    /\ Val(self_timeout) > 0
    /\ Attempts(c) >= 1

\* ---- C9 ---------------------------------------------------------------------
\* C9: every attempt of a call was started (node selected, request issued)
\* with a remaining budget that is None or > 0; with a finite timeout the
\* elapsed time of the attempts before it was less than the timeout, and
\* while a request is in flight its call's budget is still None or > 0.
C9_NoAttemptAfterExhaustion ==
  \A c \in Calls :
    /\ \A k \in 1..Attempts(c) :
         /\ LoopCond(log[c][k].budget)
         /\ Finite =>
              /\ ~IsNone(log[c][k].budget)
              /\ Val(log[c][k].budget)
                   = Val(self_timeout) - SumElapsed(c, k - 1)
              /\ SumElapsed(c, k - 1) < Val(self_timeout)
    /\ pc[c] = "request" => LoopCond(timeout[c])
    /\ (Finite /\ pc[c] = "while" /\ Val(timeout[c]) <= 0) =>
         ~ENABLED Attempt(c)

\* a call whose budget is used up, stopped at the loop head after an attempt
C9_Witness ==
  \E c \in Calls :
    /\ Finite
    /\ pc[c] = "while"
    /\ Attempts(c) >= 1
    /\ Val(timeout[c]) < 0

\* ---- C10 --------------------------------------------------------------------
\* C10: a step in which an attempt fails with a connection failure (the trace
\* of the call grows by one) raises the failureCount of the node of that
\* attempt by exactly 1 and leaves the failureCount of the other nodes.
C10_FailureCountsUp ==
  [][\A c \in Calls :
       (pc[c] = "request" /\ Len(error_trace'[c]) = Len(error_trace[c]) + 1)
         => /\ failureCount'[connection[c]] = failureCount[connection[c]] + 1
            /\ \A n \in Nodes \ {connection[c]} :
                 failureCount'[n] = failureCount[n]]_vars

\* a node that failed twice in a row
C10_Witness ==
  \E c \in Calls : \E n \in Nodes :
    /\ failureCount[n] >= 2
    /\ Attempts(c) >= 1
    /\ log[c][Attempts(c)].outcome = "conn"
    /\ log[c][Attempts(c)].node = n

\* ---- C11 --------------------------------------------------------------------
\* C11: the step in which an attempt succeeds and the call returns leaves the
\* node of that attempt with failureCount = 0 and eligible for selection at
\* once (blockedUntil not after the current time), whatever they were before.
C11_SuccessResetsBackoff ==
  [][\A c \in Calls :
       (pc[c] = "request" /\ result'[c].kind = "return")
         => /\ failureCount'[connection[c]] = 0
            /\ now' >= blockedUntil'[connection[c]]
            /\ pc'[c] = "done"]_vars

\* a call returned from a node that had failed earlier in the same call
C11_Witness ==
  \E c \in Calls :
    /\ result[c].kind = "return"
    /\ \E k \in 1..(Attempts(c) - 1) :
         /\ log[c][k].node = log[c][Attempts(c)].node
         /\ log[c][k].outcome = "conn"
    /\ failureCount[log[c][Attempts(c)].node] = 0
    /\ isEligible(log[c][Attempts(c)].node)

\* ---- C12 --------------------------------------------------------------------
\* C12: entering forward_request leaves every node's failureCount and
\* blockedUntil as the earlier calls left them; a connection failure of a node
\* raises its failureCount by one and moves its blockedUntil to a time that is
\* not earlier than the previous one and at most MaxBackoff after the current
\* time; a success makes the node eligible at once.
C12_BackoffPersists ==
  [][/\ \A c \in Calls :
          (pc[c] = "idle" /\ pc'[c] = "while")
            => /\ failureCount' = failureCount
               /\ blockedUntil' = blockedUntil
     /\ \A n \in Nodes :
          /\ failureCount'[n] > failureCount[n]
               => /\ failureCount'[n] = failureCount[n] + 1
                  /\ blockedUntil'[n] >= blockedUntil[n]
                  /\ blockedUntil'[n] > now
                  /\ blockedUntil'[n] <= now + MaxBackoff
          /\ failureCount'[n] < failureCount[n]
               => /\ failureCount'[n] = 0
                  /\ now' >= blockedUntil'[n]]_vars

\* a node at its second failure in a row, the first one made in an earlier call
C12_Witness ==
  \E c \in Calls : \E n \in Nodes :
    /\ failureCount[n] = 2
    /\ BaseBackoff * Pow2(failureCount[n] - 1) > MaxBackoff
    /\ blockedUntil[n] = now + MaxBackoff
    /\ Attempts(c) = 1
    /\ log[c][1].node = n
    /\ log[c][1].outcome = "conn"
    /\ \A d \in Calls \ {c} : pc[d] = "idle" /\ log[d] = << >>

\* ---- C13 --------------------------------------------------------------------
\* C13: every step that starts an attempt selects its node then, from the
\* state of the pool at that moment: the node is one of the configured nodes;
\* if some node is eligible the node is eligible and is the first eligible one
\* in round-robin order after the node selected before, and the round-robin
\* position moves past it; if no node is eligible the node is one whose
\* blockedUntil is the soonest.
C13_SelectionPolicy ==
  [][\A c \in Calls :
       Attempts(c)' > Attempts(c) =>
         LET n == connection'[c] IN
           /\ n \in Nodes
           /\ n = log'[c][Attempts(c)'].node
           /\ IF \E m \in Nodes : now >= blockedUntil[m]
              THEN /\ now >= blockedUntil[n]
                   /\ \A m \in Nodes :
                        now >= blockedUntil[m]
                          => (n - cursor) % NumNodes <= (m - cursor) % NumNodes
                   /\ cursor' = (n % NumNodes) + 1
              ELSE \A m \in Nodes : blockedUntil[n] <= blockedUntil[m]]_vars

\* a second attempt of a call that went to another node than the first, which
\* is backed off, and an attempt made when every node was backed off
C13_Witness ==
  \E c \in Calls :
    /\ Attempts(c) = 3
    /\ pc[c] = "request"
    /\ \A d \in Calls \ {c} : pc[d] = "idle" /\ log[d] = << >>
    /\ log[c][1].node # log[c][2].node
    /\ log[c][2].outcome = "conn"
    /\ \A m \in Nodes : log[c][3].start < blockedUntil[m]

\* ---- C14 --------------------------------------------------------------------
\* number of connection failures on node n among the first k attempts of call c
RECURSIVE FailuresOn(_, _, _)
FailuresOn(c, k, n) ==
  IF k <= 0 THEN 0
  ELSE FailuresOn(c, k - 1, n)
         + (IF log[c][k].node = n /\ log[c][k].outcome = "conn" THEN 1 ELSE 0)

\* the same, over the calls 1..i
RECURSIVE TotalFailuresOn(_, _)
TotalFailuresOn(i, n) ==
  IF i <= 0 THEN 0
  ELSE TotalFailuresOn(i - 1, n) + FailuresOn(i, Attempts(i), n)

\* number of attempts of the calls 1..i
RECURSIVE TotalAttempts(_)
TotalAttempts(i) ==
  IF i <= 0 THEN 0 ELSE TotalAttempts(i - 1) + Attempts(i)

\* the end of attempt k of call c, once it has ended
EndOf(c, k) == log[c][k].start + log[c][k].elapsed

C15_BudgetAccounting ==
  \A c \in Calls :
    pc[c] # "idle" =>
      IF Finite
      THEN /\ ~IsNone(timeout[c])
           /\ Val(timeout[c])
                = Val(self_timeout) - SumElapsed(c, Attempts(c))
      ELSE IsNone(timeout[c])

\* a call with a finite budget that is over with another error, after a
\* connection failure, both attempts having taken time
C15_Witness ==
  \E c \in Calls :
    /\ Finite
    /\ pc[c] = "done"
    /\ result[c].kind = "raise"
    /\ Attempts(c) >= 2
    /\ log[c][1].elapsed > 0
    /\ log[c][2].elapsed > 0

\* ---- C16 --------------------------------------------------------------------
\* C16: the timeout handed to an attempt is the budget that remained when the
\* attempt started: with a finite configured timeout it is the budget left by
\* the attempts before it, it is > 0, and it is not larger than the timeout
\* handed to the attempt before (the elapsed times are not negative); with no
\* configured timeout it is None for every attempt.
C16_AttemptTimeout ==
  \A c \in Calls : \A k \in 1..Attempts(c) :
    IF Finite
    THEN /\ ~IsNone(log[c][k].budget)
         /\ Val(log[c][k].budget) > 0
         /\ k = 1 => log[c][k].budget = self_timeout
         /\ k > 1 =>
              /\ Val(log[c][k].budget)
                   = Val(log[c][k - 1].budget) - log[c][k - 1].elapsed
              /\ Val(log[c][k].budget) <= Val(log[c][k - 1].budget)
         /\ (k = Attempts(c) /\ pc[c] = "request") =>
              log[c][k].budget = timeout[c]
    ELSE IsNone(log[c][k].budget)

\* a second attempt handed less than the first
C16_Witness ==
  \E c \in Calls :
    /\ Finite
    /\ Attempts(c) >= 2
    /\ Val(log[c][2].budget) < Val(log[c][1].budget)

\* ---- calls whose attempts take time -----------------------------------------
\* Every attempt takes at least MinDuration, a request in flight ends at some
\* time (with a response or with an error), a thread that can take a step
\* takes it at some time. The time between two attempts is negligible: the
\* clock moves while a request is in flight. One call is in progress at a
\* time, and a call starts only when the clock and the requests of the model
\* leave room for all the attempts that its budget allows.

\* the least time an attempt takes
MinDuration == 1

\* the attempts a budget of t allows: t / MinDuration, rounded up
AttemptsBound(t) ==
  IF IsNone(t) THEN MaxRequests
  ELSE IF Val(t) <= 0 THEN 0
  ELSE (Val(t) + MinDuration - 1) \div MinDuration

LongEnough(c) == now - start[c] >= MinDuration

TickLive ==
  /\ \E c \in Calls : pc[c] = "request"
  /\ Tick

CallLive(c) ==
  /\ \A d \in Calls \ {c} : pc[d] = "idle"
  /\ IF IsNone(self_timeout) THEN TRUE
     ELSE IF Val(self_timeout) <= 0 THEN TRUE
     ELSE /\ now + Val(self_timeout) - 1 + MinDuration <= MaxNow
          /\ requests + AttemptsBound(self_timeout) <= MaxRequests
  /\ Call(c)

RequestOkLive(c) == LongEnough(c) /\ RequestOk(c)

RequestConnectionErrorLive(c) == LongEnough(c) /\ RequestConnectionError(c)

RequestOtherErrorLive(c) == LongEnough(c) /\ RequestOtherError(c)

\* the request of call c ends, one way or another
RequestEnds(c) ==
  \/ RequestOkLive(c)
  \/ RequestConnectionErrorLive(c)
  \/ RequestOtherErrorLive(c)

LiveNext ==
  \/ TickLive
  \/ \E c \in Calls : CallLive(c)
  \/ \E c \in Calls : Attempt(c)
  \/ \E c \in Calls : RaiseTimeout(c)
  \/ \E c \in Calls : RequestOkLive(c)
  \/ \E c \in Calls : RequestConnectionErrorLive(c)
  \/ \E c \in Calls : RequestOtherErrorLive(c)
  \/ \E c \in Calls : Finish(c)

LiveFairness ==
  /\ WF_vars(TickLive)
  /\ \A c \in Calls :
       /\ WF_vars(Attempt(c))
       /\ WF_vars(RaiseTimeout(c))
       /\ WF_vars(RequestEnds(c))

LiveSpec == Init /\ [][LiveNext]_vars /\ LiveFairness

\* ---- C17 --------------------------------------------------------------------
\* C17: with a finite configured timeout and attempts that take at least
\* MinDuration each, a call never makes more attempts than the timeout divided
\* by MinDuration, rounded up, and every call that has started is over at some
\* time, whatever the outcomes of its attempts (all connection failures
\* included).
C17_Termination ==
  /\ [](Finite => \A c \in Calls : Attempts(c) <= AttemptsBound(self_timeout))
  /\ \A c \in Calls :
       (Finite /\ pc[c] \in {"while", "request"}) ~> (pc[c] = "done")

\* a call raised TimeoutError after as many failed attempts as its budget allows
C17_Witness ==
  \E c \in Calls :
    /\ Finite
    /\ result[c].kind = "TimeoutError"
    /\ Attempts(c) >= 2
    /\ Attempts(c) = AttemptsBound(self_timeout)

\* ---- C18 --------------------------------------------------------------------
\* the numbers of the requests of call c
SeqsOf(c) == {log[c][k].seq : k \in 1..Attempts(c)}

\* C18: no step changes the configured timeout; a call starts with the
\* configured timeout as its budget and with an empty trace; the budget and
\* the trace of a call in progress change only by a step of that call; and the
\* trace of a call, also the one it raises with TimeoutError, holds the
\* connection failures of its own attempts and of no other call's.
C18_PrivateState ==
  /\ [](\A c \in Calls :
          /\ error_trace[c] = Failures(c)
          /\ \A k \in 1..Len(error_trace[c]) :
               /\ error_trace[c][k].seq \in SeqsOf(c)
               /\ \A d \in Calls \ {c} : error_trace[c][k].seq \notin SeqsOf(d)
          /\ result[c].kind = "TimeoutError" =>
               result[c].trace = error_trace[c])
  /\ [][/\ self_timeout' = self_timeout
        /\ \A c \in Calls :
             /\ (pc[c] = "idle" /\ pc'[c] = "while")
                  => /\ timeout'[c] = self_timeout
                     /\ error_trace'[c] = << >>
             /\ pc'[c] = pc[c]
                  => /\ timeout'[c] = timeout[c]
                     /\ error_trace'[c] = error_trace[c]]_vars

\* a call raised TimeoutError with the failure of its own attempt, which
\* started after an attempt of another call had failed
C18_Witness ==
  \E c, d \in Calls :
    /\ c # d
    /\ result[c].kind = "TimeoutError"
    /\ Len(result[c].trace) >= 1
    /\ Failures(d) # << >>
    /\ Failures(d)[1].seq < result[c].trace[1].seq
    /\ start[c] >= log[d][1].start + log[d][1].elapsed

\* ---- C19 --------------------------------------------------------------------
\* C19: a call whose last attempt succeeded has returned the data of that
\* response, also when the elapsed time of that attempt left a budget <= 0;
\* a call that raised TimeoutError has no successful attempt.
C19_SuccessBeatsExhaustion ==
  \A c \in Calls :
    /\ (Attempts(c) > 0 /\ log[c][Attempts(c)].outcome = "ok") =>
         /\ result[c].kind = "return"
         /\ result[c].data.node = log[c][Attempts(c)].node
         /\ result[c].data.seq = log[c][Attempts(c)].seq
    /\ result[c].kind = "TimeoutError" =>
         \A k \in 1..Attempts(c) : log[c][k].outcome # "ok"

\* a call returned from an attempt that took more than the budget that was left
C19_Witness ==
  \E c \in Calls :
    /\ Finite
    /\ result[c].kind = "return"
    /\ Val(timeout[c]) < 0
    /\ log[c][Attempts(c)].elapsed > Val(log[c][Attempts(c)].budget)

====
